---- MODULE Spec2Model ----
(***************************************************************************)
(* State-machine model of xfs_inode_scanner.py: the superblock gate, the   *)
(* fixed-stride inode scan, the neighbour-based classifier with its        *)
(* filters, and the short-form directory scan.                             *)
(*                                                                         *)
(* An image is a length plus a sparse byte map (every byte that the map    *)
(* does not name is 0).  A bytes object read from the image is a view      *)
(* [base, len] onto it, sliced with Python's clamping semantics.           *)
(***************************************************************************)
EXTENDS Integers, Sequences, FiniteSets, TLC

(* ------------------------------------------------------------------ *)
(* Program constants                                                   *)
(* ------------------------------------------------------------------ *)
XFS_SUPERBLOCK_OFFSET == 0
XFS_SUPERBLOCK_MAGIC == <<88, 70, 83, 66>>
INODE_MAGIC == <<73, 78>>
INODE_SIZE == 512
FILE_TYPES ==
    [c \in {1, 2, 4, 6, 8, 10, 12} |->
        CASE c = 1 -> "FIFO"
          [] c = 2 -> "Character Device"
          [] c = 4 -> "Directory"
          [] c = 6 -> "Block Device"
          [] c = 8 -> "Regular File"
          [] c = 10 -> "Symlink"
          [] c = 12 -> "Socket"]
RootInode == 128
SHORTFORM_SIZE == 256
COARSE_STRIDE == 256
FINE_STRIDE == 16

(* ------------------------------------------------------------------ *)
(* Bounds of the model                                                 *)
(* ------------------------------------------------------------------ *)
\* blocks after block RootInode that may hold an inode candidate
TrailingSlots == 1
\* longest small image, in 16-byte units
MaxSmallUnits == 33

(* ------------------------------------------------------------------ *)
(* Bytes, images and views                                             *)
(* ------------------------------------------------------------------ *)
Min(a, b) == IF a <= b THEN a ELSE b
Max(a, b) == IF a >= b THEN a ELSE b

Byte(img, k) == IF k \in DOMAIN img.data THEN img.data[k] ELSE 0

\* f.seek(pos); f.read(n): at most n bytes, fewer at the end of the file
ReadAt(img, pos, n) == [base |-> pos, len |-> Min(n, Max(0, img.len - pos))]
\* f.seek(0); f.read()
ReadWhole(img) == [base |-> 0, len |-> img.len]
\* b[a:z] of a bytes object, clamped to its length
Slice(v, a, z) ==
    LET lo == Min(a, v.len)
        hi == Min(z, v.len)
    IN  [base |-> v.base + lo, len |-> Max(0, hi - lo)]
\* b[k], for k < len(b)
Index(img, v, k) == Byte(img, v.base + k)
\* the bytes of a (short) bytes object, for comparison and decoding
Bytes(img, v) == [k \in 1..v.len |-> Byte(img, v.base + k - 1)]

RECURSIVE BigEndian(_)
\* the big-endian unsigned value of a byte string
BigEndian(bs) ==
    IF bs = <<>> THEN 0
    ELSE BigEndian(SubSeq(bs, 1, Len(bs) - 1)) * 256 + bs[Len(bs)]

(* ------------------------------------------------------------------ *)
(* The functions of the program                                        *)
(* ------------------------------------------------------------------ *)
detect_xfs_magic_prefix3(img) ==
    SubSeq(Bytes(img, ReadAt(img, XFS_SUPERBLOCK_OFFSET, 4)), 1,
           Min(3, Len(Bytes(img, ReadAt(img, XFS_SUPERBLOCK_OFFSET, 4)))))
        = SubSeq(XFS_SUPERBLOCK_MAGIC, 1, 3)

detect_xfs_magic(img) ==
    Bytes(img, ReadAt(img, XFS_SUPERBLOCK_OFFSET, 4)) = XFS_SUPERBLOCK_MAGIC

parse_file_type(mode_byte) == (mode_byte \div 16) % 16

\* struct.unpack(">I", b)[0]; "error" stands for the struct.error raised when
\* b is not exactly 4 bytes long
Unpack32(img, v) == IF v.len = 4 THEN BigEndian(Bytes(img, v)) ELSE "error"

parse_times_per_field(img, block) ==
    LET z(v) == IF v.len = 4 THEN BigEndian(Bytes(img, v)) ELSE 0
    IN  <<z(Slice(block, 32, 36)), z(Slice(block, 40, 44)), z(Slice(block, 48, 52))>>

parse_times(img, block) ==
    LET a == Slice(block, 32, 36)
        m == Slice(block, 40, 44)
        c == Slice(block, 48, 52)
    IN  IF a.len = 4 /\ m.len = 4 /\ c.len = 4
        THEN <<Unpack32(img, a), Unpack32(img, m), Unpack32(img, c)>>
        ELSE <<0, 0, 0>>

\* the block at one offset matches the inode signature
BlockMatchesFirstByte(img, block) == Index(img, block, 0) = INODE_MAGIC[1]

BlockMatches(img, block) == Bytes(img, Slice(block, 0, 2)) = INODE_MAGIC

\* the dict built for a matching block
InodeOf(img, block, off) ==
    LET t == parse_times(img, block)
    IN  [inode |-> off \div INODE_SIZE,
         type_code |-> parse_file_type(Index(img, block, 2)),
         atime |-> t[1], mtime |-> t[2], ctime |-> t[3]]

\* the locals of scan_and_classify_inodes on entry; `running` is false once the
\* while loop has been left
ScanStart == [offset |-> 0, inodes |-> <<>>, running |-> TRUE]

\* one evaluation of the loop test and body of scan_and_classify_inodes
ScanStep(img, size, s) ==
    IF ~s.running THEN s
    ELSE IF ~(s.offset < size) THEN [s EXCEPT !.running = FALSE]
    ELSE LET block == ReadAt(img, s.offset, INODE_SIZE)
         IN  IF block.len < 4 THEN [s EXCEPT !.running = FALSE]
             ELSE [offset |-> s.offset + INODE_SIZE,
                   inodes |-> IF BlockMatches(img, block)
                              THEN Append(s.inodes, InodeOf(img, block, s.offset))
                              ELSE s.inodes,
                   running |-> TRUE]

RECURSIVE ScanSteps(_, _, _, _)
\* n evaluations of the loop in a row (split in halves, which keeps the
\* evaluation shallow on images of many blocks)
ScanSteps(img, size, s, n) ==
    IF ~s.running \/ n = 0 THEN s
    ELSE IF n = 1 THEN ScanStep(img, size, s)
    ELSE ScanSteps(img, size, ScanSteps(img, size, s, n \div 2), n - n \div 2)

\* the loop run until it is left: it is left after at most size/512 + 2 tests
scan_and_classify_inodes(img, size) ==
    ScanSteps(img, size, ScanStart, size \div INODE_SIZE + 2).inodes

has_times(inode) == inode.atime # 0 /\ inode.mtime # 0 /\ inode.ctime # 0

UnknownName ==
    <<"Unknown (0x0)", "Unknown (0x1)", "Unknown (0x2)", "Unknown (0x3)",
      "Unknown (0x4)", "Unknown (0x5)", "Unknown (0x6)", "Unknown (0x7)",
      "Unknown (0x8)", "Unknown (0x9)", "Unknown (0xA)", "Unknown (0xB)",
      "Unknown (0xC)", "Unknown (0xD)", "Unknown (0xE)", "Unknown (0xF)">>

prev_known(inodes, i) == i > 1 /\ inodes[i - 1].type_code \in DOMAIN FILE_TYPES
next_known(inodes, i) == i + 1 <= Len(inodes) /\ inodes[i + 1].type_code \in DOMAIN FILE_TYPES

file_type_both_neighbours(inodes, i) ==
    IF inodes[i].inode = RootInode THEN "Root Directory"
    ELSE IF inodes[i].type_code = 0
    THEN IF (prev_known(inodes, i) /\ next_known(inodes, i)) /\ has_times(inodes[i])
         THEN "Probably Deleted File"
         ELSE "Unknown (0x0)"
    ELSE IF inodes[i].type_code \in DOMAIN FILE_TYPES
         THEN FILE_TYPES[inodes[i].type_code]
         ELSE UnknownName[inodes[i].type_code + 1]

file_type_root_last(inodes, i) ==
    IF inodes[i].type_code = 0
    THEN IF (prev_known(inodes, i) \/ next_known(inodes, i)) /\ has_times(inodes[i])
         THEN "Probably Deleted File"
         ELSE "Unknown (0x0)"
    ELSE IF inodes[i].type_code \in DOMAIN FILE_TYPES
         THEN FILE_TYPES[inodes[i].type_code]
         ELSE IF inodes[i].inode = RootInode THEN "Root Directory"
         ELSE UnknownName[inodes[i].type_code + 1]

\* "Determine file type" of classify_and_print, for the record at (1-based)
\* position i of the scanned list
file_type(inodes, i) ==
    IF inodes[i].inode = RootInode THEN "Root Directory"
    ELSE IF inodes[i].type_code = 0
    THEN IF (prev_known(inodes, i) \/ next_known(inodes, i)) /\ has_times(inodes[i])
         THEN "Probably Deleted File"
         ELSE "Unknown (0x0)"
    ELSE IF inodes[i].type_code \in DOMAIN FILE_TYPES
         THEN FILE_TYPES[inodes[i].type_code]
         ELSE UnknownName[inodes[i].type_code + 1]

filtered_out_type_only(inode, label, only_allocated, only_deleted) ==
    \/ only_allocated /\ inode.type_code = 0
    \/ only_deleted /\ label # "Probably Deleted File"

\* the two `continue` tests of classify_and_print
filtered_out(inode, label, only_allocated, only_deleted) ==
    \/ only_allocated /\ (inode.type_code = 0 \/ ~has_times(inode))
    \/ only_deleted /\ label # "Probably Deleted File"

\* parse_shortform_inode: <<the record>>, or <<>> for None
parse_shortform_inode(img, buf, off) ==
    LET inode == Slice(buf, off, off + SHORTFORM_SIZE)
    IN  IF inode.len < SHORTFORM_SIZE \/ Bytes(img, Slice(inode, 0, 2)) # INODE_MAGIC
        THEN <<>>
        ELSE IF Index(img, inode, 176) = 0 THEN <<>>
        ELSE <<[inode_number |-> BigEndian(Bytes(img, Slice(inode, 152, 160))),
                offset |-> off,
                entry_count |-> Index(img, inode, 176)]>>

(* ------------------------------------------------------------------ *)
(* The images the runs are checked on                                  *)
(* ------------------------------------------------------------------ *)
BE32(v) == <<(v \div 16777216) % 256, (v \div 65536) % 256, (v \div 256) % 256, v % 256>>
At(off, bs) == [k \in off..(off + Len(bs) - 1) |-> bs[k - off + 1]]
Truncated(f, n) == [k \in {j \in DOMAIN f : j < n} |-> f[k]]
NoBytes == [k \in {} |-> 0]

\* mode bytes with type codes 0x0 (low nibble set), 0x3 (not in FILE_TYPES), 0x8
ModeBytes == {15, 48, 129}
AllTimes == <<258, 259, 66000>>
NoMtime == <<258, 0, 66000>>
\* what one 512-byte slot holds: an inode candidate (every mode byte with all
\* three timestamps, types 0x0 and 0x8 also with mtime 0), or a block whose
\* second byte breaks the signature while every other field parses
InodeTemplates ==
    [magic : {INODE_MAGIC}, mode : ModeBytes, times : {AllTimes}]
        \cup [magic : {INODE_MAGIC}, mode : {15, 129}, times : {NoMtime}]
        \cup {[magic |-> <<73, 88>>, mode |-> 129, times |-> AllTimes]}
InodeBytes(o, t) ==
    At(o, t.magic) @@ At(o + 2, <<t.mode>>) @@ At(o + 32, BE32(t.times[1]))
        @@ At(o + 40, BE32(t.times[2])) @@ At(o + 48, BE32(t.times[3]))

Slots == (RootInode - 1)..(RootInode + TrailingSlots)
LastSlot == RootInode + TrailingSlots
\* length of the last block of the image
TailLens == {0, 3, 4, 44, 51, 52}

RECURSIVE SlotBytes(_, _)
SlotBytes(f, S) ==
    IF S = {} THEN NoBytes
    ELSE LET s == CHOOSE x \in S : TRUE
         IN  InodeBytes(s * INODE_SIZE, f[s]) @@ SlotBytes(f, S \ {s})

LargeImages ==
    {[len |-> LastSlot * INODE_SIZE + tail,
      data |-> Truncated(At(0, XFS_SUPERBLOCK_MAGIC) @@ SlotBytes(f, Slots),
                         LastSlot * INODE_SIZE + tail)] :
        f \in [Slots -> InodeTemplates], tail \in TailLens}

\* every type code 0x0..0xF in turn, at inode 128 and two blocks before it,
\* each followed by a block of type code 0 with all three timestamps
AllTypeImages ==
    {[len |-> (RootInode + 2) * INODE_SIZE,
      data |-> At(0, XFS_SUPERBLOCK_MAGIC)
                 @@ InodeBytes(b * INODE_SIZE,
                        [magic |-> INODE_MAGIC, mode |-> 16 * t + 1, times |-> AllTimes])
                 @@ InodeBytes((b + 1) * INODE_SIZE,
                        [magic |-> INODE_MAGIC, mode |-> 15, times |-> AllTimes])] :
        t \in 0..15, b \in {RootInode - 2, RootInode}}

\* short-form candidates: nothing, a header with entry count 0, a header
\* with inode number 261 and entry count 2
ShortformTemplates == {"none", "empty", "full"}
ShortformBytes(o, t) ==
    CASE t = "none" -> NoBytes
      [] t = "empty" -> At(o, <<73, 78>>)
      [] t = "full" -> At(o, <<73, 78>>) @@ At(o + 152, <<0, 0, 0, 0, 0, 0, 1, 5>>)
                          @@ At(o + 176, <<2>>)
ShortformMarks == {16, 24, 32, 256}
SmallLens ==
    {0, 3, 4} \cup {16 * u : u \in {16, 17, 18, MaxSmallUnits - 1, MaxSmallUnits}}
Prefixes == {XFS_SUPERBLOCK_MAGIC, <<88, 70, 83, 65>>}

RECURSIVE MarkBytes(_, _)
MarkBytes(f, S) ==
    IF S = {} THEN NoBytes
    ELSE LET s == CHOOSE x \in S : TRUE
         IN  ShortformBytes(s, f[s]) @@ MarkBytes(f, S \ {s})

SmallImages ==
    {[len |-> n, data |-> Truncated(At(0, p) @@ MarkBytes(f, ShortformMarks), n)] :
        f \in [ShortformMarks -> ShortformTemplates], n \in SmallLens, p \in Prefixes}

\* outcomes of xfs_ncheck: a mapping, or a failure (empty mapping, warning)
NameMaps == {NoBytes, [k \in {RootInode + 1} |-> "/a"]}

(* ------------------------------------------------------------------ *)
(* State                                                               *)
(* ------------------------------------------------------------------ *)
VARIABLES
    image,      \* the image file: [len, data]
    openable,   \* open(image_path, 'rb') succeeds
    args,       \* the parsed command line: allocated, deleted, shortform
    pc,         \* position in __main__ / main
    exit_code,  \* exit status of the process, -1 while it runs
    msgs,       \* the message lines printed, in order
    out,        \* the inode reports printed by classify_and_print, in order
    sf_out,     \* the short-form reports printed, in order
    calls,      \* the scans and the name resolution started so far
    filesize,   \* main: filesize
    inodes,     \* main: inodes
    name_map,   \* main: name_map
    i,          \* classify_and_print: i (0-based, as enumerate gives it)
    total,      \* classify_and_print: total
    data,       \* main/scan_shortform_inodes: data
    offset,     \* scan_shortform_inodes: offset
    found       \* scan_shortform_inodes: found

vars == <<image, openable, args, pc, exit_code, msgs, out, sf_out, calls, filesize,
          inodes, name_map, i, total, data, offset, found>>

Flags(a) == (IF a.allocated THEN 1 ELSE 0) + (IF a.deleted THEN 1 ELSE 0)
                + (IF a.shortform THEN 1 ELSE 0)

Init ==
    /\ image \in LargeImages \cup AllTypeImages \cup SmallImages
    /\ openable \in BOOLEAN
    /\ args \in [allocated : BOOLEAN, deleted : BOOLEAN, shortform : BOOLEAN]
    /\ (args.shortform /\ Flags(args) = 1) => image.len <= 16 * MaxSmallUnits
    /\ pc = "args"
    /\ exit_code = -1
    /\ msgs = <<>>
    /\ out = <<>>
    /\ sf_out = <<>>
    /\ calls = {}
    /\ filesize = 0
    /\ inodes = <<>>
    /\ name_map = NoBytes
    /\ i = 0
    /\ total = 0
    /\ data = [base |-> 0, len |-> 0]
    /\ offset = 0
    /\ found = 0

(* ------------------------------------------------------------------ *)
(* Steps of the program                                                *)
(* ------------------------------------------------------------------ *)
\* __main__: the mutual-exclusion test of the flags
ParseArgs ==
    /\ pc = "args"
    /\ IF Flags(args) > 1
       THEN /\ msgs' = Append(msgs, "usage")
            /\ pc' = "done"
            /\ exit_code' = 1
       ELSE /\ pc' = "open"
            /\ UNCHANGED <<msgs, exit_code>>
    /\ UNCHANGED <<image, openable, args, out, sf_out, calls, filesize, inodes,
                   name_map, i, total, data, offset, found>>

\* main: with open(image_path, 'rb') as f, and the first print
OpenImage ==
    /\ pc = "open"
    /\ IF openable
       THEN /\ msgs' = Append(msgs, "checking")
            /\ pc' = "magic"
       ELSE /\ pc' = "except"
            /\ UNCHANGED msgs
    /\ UNCHANGED <<image, openable, args, exit_code, out, sf_out, calls, filesize,
                   inodes, name_map, i, total, data, offset, found>>

\* main: the superblock gate
DetectMagic ==
    /\ pc = "magic"
    /\ IF ~detect_xfs_magic(image)
       THEN /\ msgs' = Append(msgs, "not_xfs")
            /\ pc' = "done"
            /\ exit_code' = 0
       ELSE /\ msgs' = Append(msgs, "detected")
            /\ pc' = IF args.shortform THEN "shortform" ELSE "scan"
            /\ UNCHANGED exit_code
    /\ UNCHANGED <<image, openable, args, out, sf_out, calls, filesize, inodes,
                   name_map, i, total, data, offset, found>>

\* a read of the image raises OSError inside detect_xfs_magic
DetectMagicReadFails ==
    /\ pc = "magic"
    /\ pc' = "except"
    /\ UNCHANGED <<image, openable, args, exit_code, msgs, out, sf_out, calls,
                   filesize, inodes, name_map, i, total, data, offset, found>>

\* main, shortform branch: data = f.read(), then the head of scan_shortform_inodes
ShortformRead ==
    /\ pc = "shortform"
    /\ data' = ReadWhole(image)
    /\ calls' = calls \cup {"scan_shortform_inodes"}
    /\ offset' = 0
    /\ found' = 0
    /\ msgs' = Append(msgs, "sf_scanning")
    /\ pc' = "sf_loop"
    /\ UNCHANGED <<image, openable, args, exit_code, out, sf_out, filesize, inodes,
                   name_map, i, total>>

\* f.read() raises OSError
ShortformReadFails ==
    /\ pc = "shortform"
    /\ pc' = "except"
    /\ UNCHANGED <<image, openable, args, exit_code, msgs, out, sf_out, calls,
                   filesize, inodes, name_map, i, total, data, offset, found>>

\* one iteration of the while loop of scan_shortform_inodes
ShortformLoop ==
    /\ pc = "sf_loop"
    /\ offset < data.len - SHORTFORM_SIZE
    /\ IF Bytes(image, Slice(data, offset, offset + 2)) = <<73, 78>>
       THEN LET result == parse_shortform_inode(image, data, offset)
            IN  /\ IF result # <<>>
                   THEN /\ found' = found + 1
                        /\ sf_out' = Append(sf_out, result[1])
                   ELSE UNCHANGED <<found, sf_out>>
                /\ offset' = offset + COARSE_STRIDE
       ELSE /\ offset' = offset + FINE_STRIDE
            /\ UNCHANGED <<found, sf_out>>
    /\ UNCHANGED <<image, openable, args, pc, exit_code, msgs, out, calls, filesize,
                   inodes, name_map, i, total, data>>

\* the loop of scan_shortform_inodes ends; main returns
ShortformEnd ==
    /\ pc = "sf_loop"
    /\ ~(offset < data.len - SHORTFORM_SIZE)
    /\ msgs' = IF found = 0 THEN Append(msgs, "sf_none") ELSE msgs
    /\ pc' = "done"
    /\ exit_code' = 0
    /\ UNCHANGED <<image, openable, args, out, sf_out, calls, filesize, inodes,
                   name_map, i, total, data, offset, found>>

\* main: the file size, the whole inode scan, and the empty-result return
ScanInodes ==
    /\ pc = "scan"
    /\ filesize' = image.len
    /\ calls' = calls \cup {"scan_and_classify_inodes"}
    /\ inodes' = scan_and_classify_inodes(image, image.len)
    /\ IF inodes' = <<>>
       THEN /\ msgs' = Append(msgs, "no_inodes")
            /\ pc' = "done"
            /\ exit_code' = 0
       ELSE /\ pc' = "ncheck"
            /\ UNCHANGED <<msgs, exit_code>>
    /\ UNCHANGED <<image, openable, args, out, sf_out, name_map, i, total, data,
                   offset, found>>

\* some f.read(INODE_SIZE) of the scan raises OSError: the list is lost
ScanInodesReadFails ==
    /\ pc = "scan"
    /\ filesize' = image.len
    /\ calls' = calls \cup {"scan_and_classify_inodes"}
    /\ pc' = "except"
    /\ UNCHANGED <<image, openable, args, exit_code, msgs, out, sf_out, inodes,
                   name_map, i, total, data, offset, found>>

\* main: name_map = parse_xfs_ncheck(image_path), then the head of
\* classify_and_print
ResolveNames ==
    /\ pc = "ncheck"
    /\ calls' = calls \cup {"parse_xfs_ncheck"}
    /\ \E m \in NameMaps :
          /\ name_map' = m
          /\ msgs' = IF m = NoBytes THEN Append(msgs, "warning") ELSE msgs
    /\ i' = 0
    /\ total' = 0
    /\ pc' = "classify"
    /\ UNCHANGED <<image, openable, args, exit_code, out, sf_out, filesize, inodes,
                   data, offset, found>>

\* one iteration of the for loop of classify_and_print
ClassifyOne ==
    /\ pc = "classify"
    /\ i < Len(inodes)
    /\ LET inode == inodes[i + 1]
           label == file_type(inodes, i + 1)
       IN  IF filtered_out(inode, label, args.allocated, args.deleted)
           THEN UNCHANGED <<out, total>>
           ELSE /\ out' = Append(out,
                        [inode |-> inode.inode,
                         file_type |-> label,
                         name |-> IF inode.inode = RootInode THEN "."
                                  ELSE IF inode.inode \in DOMAIN name_map
                                       THEN name_map[inode.inode]
                                       ELSE "(unknown)",
                         times |-> IF has_times(inode)
                                   THEN <<inode.atime, inode.mtime, inode.ctime>>
                                   ELSE <<>>])
                /\ total' = total + 1
    /\ i' = i + 1
    /\ UNCHANGED <<image, openable, args, pc, exit_code, msgs, sf_out, calls,
                   filesize, inodes, name_map, data, offset, found>>

\* the for loop ends: the total is printed and main returns
ClassifyEnd ==
    /\ pc = "classify"
    /\ i = Len(inodes)
    /\ msgs' = Append(msgs, "total")
    /\ pc' = "done"
    /\ exit_code' = 0
    /\ UNCHANGED <<image, openable, args, out, sf_out, calls, filesize, inodes,
                   name_map, i, total, data, offset, found>>

\* main: except Exception as e: print(f"Error: {e}"); the script then ends
HandleException ==
    /\ pc = "except"
    /\ msgs' = Append(msgs, "error")
    /\ pc' = "done"
    /\ exit_code' = 0
    /\ UNCHANGED <<image, openable, args, out, sf_out, calls, filesize, inodes,
                   name_map, i, total, data, offset, found>>

Next ==
    \/ ParseArgs
    \/ OpenImage
    \/ DetectMagic
    \/ DetectMagicReadFails
    \/ ShortformRead
    \/ ShortformReadFails
    \/ ShortformLoop
    \/ ShortformEnd
    \/ ScanInodes
    \/ ScanInodesReadFails
    \/ ResolveNames
    \/ ClassifyOne
    \/ ClassifyEnd
    \/ HandleException

Spec == Init /\ [][Next]_vars
(* ------------------------------------------------------------------ *)
(* Vocabulary of the properties                                        *)
(* ------------------------------------------------------------------ *)
Said(m) == \E j \in 1..Len(msgs) : msgs[j] = m
ReportsOf(n) == {j \in 1..Len(out) : out[j].inode = n}
IndexOf(n) == CHOOSE k \in 1..Len(inodes) : inodes[k].inode = n
KnownCodes == {1, 2, 4, 6, 8, 10, 12}
AllStamped(r) == r.atime # 0 /\ r.mtime # 0 /\ r.ctime # 0
KnownNeighbour(k) ==
    \/ k > 1 /\ inodes[k - 1].type_code \in KnownCodes
    \/ k < Len(inodes) /\ inodes[k + 1].type_code \in KnownCodes
\* the record at position k has type code 0, three nonzero timestamps and a
\* scan-order neighbour of known type
DeletedShape(k) ==
    inodes[k].type_code = 0 /\ AllStamped(inodes[k]) /\ KnownNeighbour(k)
\* the image starts with the four bytes XFSB
HasMagic ==
    /\ image.len >= 4
    /\ Byte(image, 0) = 88 /\ Byte(image, 1) = 70
    /\ Byte(image, 2) = 83 /\ Byte(image, 3) = 66
\* the buffer holds a valid short-form window at X
ValidWindow(X) ==
    /\ X >= 0 /\ X + 256 <= image.len
    /\ Byte(image, X) = 73 /\ Byte(image, X + 1) = 78
    /\ Byte(image, X + 176) # 0
\* the big-endian 32-bit value of the four image bytes at o
TimeAt(o) ==
    Byte(image, o) * 16777216 + Byte(image, o + 1) * 65536
        + Byte(image, o + 2) * 256 + Byte(image, o + 3)
\* bytes of the image from offset o on, at most one window
Avail(o) == Min(INODE_SIZE, image.len - o)
ShortformScanEnded == pc = "done" /\ "scan_shortform_inodes" \in calls
ClassifyEnded == pc = "done" /\ Said("total")
ScanCompleted ==
    /\ "scan_and_classify_inodes" \in calls
    /\ pc \in {"ncheck", "classify", "done"}
    /\ ~Said("error")

(* ------------------------------------------------------------------ *)
(* C1                                                                  *)
(* ------------------------------------------------------------------ *)
\* C1: when the short-form scan has ended, every offset X at which the buffer
\* holds a valid 256-byte window (IN, all 256 bytes present, byte X+176
\* nonzero) has exactly one reported record with physicalOffset X, whatever
\* surrounds the window.
C1_EveryValidWindowReportedOnce ==
    ShortformScanEnded =>
        \A X \in 0..(image.len - 256) :
            ValidWindow(X) =>
                Cardinality({j \in 1..Len(sf_out) : sf_out[j].offset = X}) = 1

(* ------------------------------------------------------------------ *)
(* C2                                                                  *)
(* ------------------------------------------------------------------ *)
\* C2 as stated: every classified record with type code 0, three nonzero
\* timestamps and a known-type scan-order neighbour is labelled Probably
\* Deleted (seen in the report of every mode that does not drop type 0).
C2_DeletedShapeIsProbablyDeleted ==
    \A k \in 1..i :
        (DeletedShape(k) /\ ~args.allocated) =>
            \E j \in ReportsOf(inodes[k].inode) :
                out[j].file_type = "Probably Deleted File"

\* C2 amended: every classified record with inode number other than 128, type
\* code 0, three nonzero timestamps and a known-type scan-order neighbour is
\* labelled Probably Deleted.
C2_DeletedShapeOffRootIsProbablyDeleted ==
    \A k \in 1..i :
        (DeletedShape(k) /\ inodes[k].inode # 128 /\ ~args.allocated) =>
            \E j \in ReportsOf(inodes[k].inode) :
                out[j].file_type = "Probably Deleted File"

\* a record off inode 128 whose only known-type neighbour is the one after it
\* has been reported as Probably Deleted
C2_Witness ==
    \E k \in 1..i :
        /\ DeletedShape(k) /\ inodes[k].inode # 128
        /\ ~(k > 1 /\ inodes[k - 1].type_code \in KnownCodes)
        /\ \E j \in ReportsOf(inodes[k].inode) :
               out[j].file_type = "Probably Deleted File"

(* ------------------------------------------------------------------ *)
(* C3                                                                  *)
(* ------------------------------------------------------------------ *)
\* C3: a reported record is labelled Root Directory exactly when its inode
\* number is 128, and without a filter the record with inode number 128 is
\* reported under that label whatever its type code, timestamps and
\* neighbours are.
C3_RootDirectoryIffInode128 ==
    /\ \A j \in 1..Len(out) :
           out[j].file_type = "Root Directory" <=> out[j].inode = 128
    /\ (~args.allocated /\ ~args.deleted) =>
           \A k \in 1..i :
               inodes[k].inode = 128 =>
                   \E j \in ReportsOf(128) : out[j].file_type = "Root Directory"

\* inode 128 of the deleted shape (type code 0, timestamps, known neighbour)
\* has been reported as Root Directory
C3_Witness ==
    \E k \in 1..i :
        /\ inodes[k].inode = 128 /\ DeletedShape(k)
        /\ \E j \in ReportsOf(128) : out[j].file_type = "Root Directory"

(* ------------------------------------------------------------------ *)
(* C4                                                                  *)
(* ------------------------------------------------------------------ *)
\* C4: every scanned record has an inode number n whose window, at offset
\* 512 * n, lies in the image and starts with IN (so a window that does not
\* start with IN has no record), and the records are in strictly ascending
\* inode-number order.
C4_RecordsAreSignedWindowsInOrder ==
    /\ \A k \in 1..Len(inodes) :
           /\ inodes[k].inode >= 0
           /\ 512 * inodes[k].inode + 1 < image.len
           /\ Byte(image, 512 * inodes[k].inode) = 73
           /\ Byte(image, 512 * inodes[k].inode + 1) = 78
    /\ \A k \in 1..(Len(inodes) - 1) : inodes[k].inode < inodes[k + 1].inode

\* two records were scanned around a window that starts with IX and so has
\* none
C4_Witness ==
    /\ Len(inodes) = 2
    /\ inodes[1].inode = 127 /\ inodes[2].inode = 129
    /\ Byte(image, 512 * 128) = 73 /\ Byte(image, 512 * 128 + 1) = 88

(* ------------------------------------------------------------------ *)
(* C5                                                                  *)
(* ------------------------------------------------------------------ *)
\* C5: when classification has ended, every report is of a scanned record;
\* in allocated-only mode no reported record has type code 0 or a zero
\* timestamp and every record with a nonzero type code and three nonzero
\* timestamps is reported; in deleted-only mode the reported records are
\* exactly those of the deleted shape off inode 128; in every mode a report
\* is labelled Probably Deleted exactly for those records, the neighbours
\* being those of the unfiltered sequence.
C5_FiltersFollowTheModes ==
    ClassifyEnded =>
        /\ \A j \in 1..Len(out) :
               /\ \E k \in 1..Len(inodes) : inodes[k].inode = out[j].inode
               /\ out[j].file_type = "Probably Deleted File" <=>
                      (DeletedShape(IndexOf(out[j].inode)) /\ out[j].inode # 128)
        /\ args.allocated =>
               /\ \A j \in 1..Len(out) :
                      /\ inodes[IndexOf(out[j].inode)].type_code # 0
                      /\ AllStamped(inodes[IndexOf(out[j].inode)])
               /\ \A k \in 1..Len(inodes) :
                      (inodes[k].type_code # 0 /\ AllStamped(inodes[k])) =>
                          ReportsOf(inodes[k].inode) # {}
        /\ args.deleted =>
               \A k \in 1..Len(inodes) :
                   ReportsOf(inodes[k].inode) # {} <=>
                       (DeletedShape(k) /\ inodes[k].inode # 128)

\* an allocated-only run has ended that reported one record and dropped one
\* with a nonzero type code and a zero timestamp
C5_Witness ==
    /\ ClassifyEnded /\ args.allocated
    /\ Len(out) >= 1
    /\ \E k \in 1..Len(inodes) :
           /\ inodes[k].type_code # 0 /\ ~AllStamped(inodes[k])
           /\ ReportsOf(inodes[k].inode) = {}

(* ------------------------------------------------------------------ *)
(* C6                                                                  *)
(* ------------------------------------------------------------------ *)
\* C6: the detector answers true exactly when the image starts with XFSB; on
\* any other image, also one shorter than 4 bytes, it answers false without
\* raising and the run ends cleanly; and on an image without the signature,
\* in every mode, no inode scan, short-form scan or name resolution is
\* started and no record is reported.
C6_GateFollowsTheSignature ==
    /\ Said("detected") => HasMagic
    /\ Said("not_xfs") => (~HasMagic /\ pc = "done" /\ exit_code = 0 /\ ~Said("error"))
    /\ ~HasMagic =>
           /\ calls = {} /\ inodes = <<>> /\ out = <<>> /\ sf_out = <<>>
           /\ pc \notin {"shortform", "sf_loop", "scan", "ncheck", "classify"}

\* a short-form run on a 3-byte image has ended at the gate
C6_Witness ==
    /\ image.len = 3 /\ args.shortform
    /\ Said("not_xfs") /\ pc = "done"

(* ------------------------------------------------------------------ *)
(* C7                                                                  *)
(* ------------------------------------------------------------------ *)
\* C7: a run in which the image could not be opened or a read of it failed
\* ends with a single diagnostic, a non-zero exit status and no inode or
\* short-form record printed.
C7_FatalErrorExitsNonZero ==
    (pc = "done" /\ Said("error")) =>
        /\ Cardinality({j \in 1..Len(msgs) : msgs[j] = "error"}) = 1
        /\ exit_code # 0
        /\ out = <<>> /\ sf_out = <<>>

(* ------------------------------------------------------------------ *)
(* C8                                                                  *)
(* ------------------------------------------------------------------ *)
\* C8: every step of the short-form loop advances the cursor by 256 when it
\* emitted a record at the cursor and by 16 when it did not (the two bytes
\* are IN and the candidate is rejected, or the two bytes are not IN).
C8_CoarseStrideOnlyAfterEmission ==
    [][(pc = "sf_loop" /\ offset' # offset) =>
          IF Len(sf_out') = Len(sf_out) + 1
          THEN offset' = offset + 256
          ELSE offset' = offset + 16]_vars

(* ------------------------------------------------------------------ *)
(* C9                                                                  *)
(* ------------------------------------------------------------------ *)
\* C9: the short-form scan has ended only when fewer than 256 bytes remain
\* at the cursor.
C9_EndsOnlyBelowOneWindow ==
    ShortformScanEnded => data.len - offset < 256

(* ------------------------------------------------------------------ *)
(* C10                                                                 *)
(* ------------------------------------------------------------------ *)
\* C10: every scanned record comes from a window of at least 4 bytes; when
\* the window holds bytes 32..51 its timestamps are the big-endian values of
\* bytes 32-35, 40-43 and 48-51, and when it is shorter than 52 bytes all
\* three are 0; a scan that no read error stopped has a record for every
\* window of at least 4 bytes that starts with IN, however short.
C10_TimestampsAllOrNothing ==
    /\ \A k \in 1..Len(inodes) :
           /\ Avail(512 * inodes[k].inode) >= 4
           /\ IF Avail(512 * inodes[k].inode) >= 52
              THEN /\ inodes[k].atime = TimeAt(512 * inodes[k].inode + 32)
                   /\ inodes[k].mtime = TimeAt(512 * inodes[k].inode + 40)
                   /\ inodes[k].ctime = TimeAt(512 * inodes[k].inode + 48)
              ELSE /\ inodes[k].atime = 0
                   /\ inodes[k].mtime = 0
                   /\ inodes[k].ctime = 0
    /\ ScanCompleted =>
           \A n \in 0..(image.len \div 512) :
               (/\ image.len - 512 * n >= 4
                /\ Byte(image, 512 * n) = 73
                /\ Byte(image, 512 * n + 1) = 78) =>
                   \E k \in 1..Len(inodes) : inodes[k].inode = n

\* a trailing window of 44 bytes, whose atime bytes are present and nonzero,
\* has a record with all three timestamps 0
C10_Witness ==
    \E k \in 1..Len(inodes) :
        /\ Avail(512 * inodes[k].inode) = 44
        /\ TimeAt(512 * inodes[k].inode + 32) # 0
        /\ inodes[k].atime = 0 /\ inodes[k].mtime = 0 /\ inodes[k].ctime = 0
====
